---- MODULE Spec2Model ----
(***************************************************************************)
(* The Astronomy Jeopardy game.                                            *)
(*                                                                         *)
(* Retrieval (rag_lectures.py): the section chunker, the module-level      *)
(* load-or-build of the chunk store with its two cache files,              *)
(* search_chunks and rag_answer.                                           *)
(*                                                                         *)
(* Game (main.py, ui.py, game_logic.py, game_data.py): answer checking,    *)
(* board generation and the browser session with its buttons.              *)
(*                                                                         *)
(* Text is a sequence of one-character strings.  Similarities are kept in  *)
(* hundredths (embedding components are in tenths), so 0.2 is 20.          *)
(***************************************************************************)
EXTENDS Integers, Sequences, FiniteSets, TLC

VARIABLES
    lectures,          \* the lectures/ directory: file name -> document name
    chunksFile,        \* chunks.json: Absent, Corrupt, or Stored(chunk list)
    embFile,           \* embeddings.npy: Absent, Corrupt, or Stored(array)
    pc,                \* position of the process in rag_lectures.py
    filenames,         \* glob('lectures/*.md') of the running process
    lecture_content,   \* concatenated corpus text
    lecture_chunks,    \* in-memory chunk list
    emb_list,          \* chunk_embeddings while it is still a Python list
    chunk_embeddings,  \* chunk_embeddings once it is an ndarray
    ret,               \* outcome of the last call made into the module
    sort_kind,         \* how this numpy build orders equal keys in argsort
    run,               \* number of processes started so far
    path,              \* branch the current process took: none, load, build
    work,              \* what the current process has done so far
    wrote,             \* runs that wrote a cache file
    deleted,           \* somebody removed a cache file
    at_start,          \* the two cache files as the current process met them
    cached_from,       \* the corpus text each cache file was computed from
    written_by,        \* the run that wrote each cache file, 0 for none
    session_state      \* st.session_state of the game's browser session

vars == <<lectures, chunksFile, embFile, pc, filenames, lecture_content,
          lecture_chunks, emb_list, chunk_embeddings, ret, sort_kind,
          run, path, work, wrote, deleted, at_start, cached_from,
          written_by, session_state>>

----------------------------------------------------------------------------
(* Bounds *)

MaxPieces == 4
MaxRuns == 3
MaxTopK == 3

----------------------------------------------------------------------------
(* Text primitives: Python str operations on sequences of characters *)

Rep(c, n) == [i \in 1..n |-> c]

Whitespace == {" ", "\n", "\t"}

SetMin(S) == CHOOSE x \in S : \A y \in S : x <= y
SetMax(S) == CHOOSE x \in S : \A y \in S : x >= y

\* str.strip()
Strip(s) ==
    LET keep == {i \in 1..Len(s) : s[i] \notin Whitespace}
    IN  IF keep = {} THEN <<>> ELSE SubSeq(s, SetMin(keep), SetMax(keep))

StartsWith(s, p) == Len(s) >= Len(p) /\ SubSeq(s, 1, Len(p)) = p

MatchAt(s, sep, i) ==
    /\ i + Len(sep) - 1 <= Len(s)
    /\ \A k \in 1..Len(sep) : s[i + k - 1] = sep[k]

\* str.split(sep): leftmost non-overlapping occurrences, empty pieces kept
RECURSIVE SplitFrom(_, _, _)
SplitFrom(s, sep, start) ==
    LET hits == {i \in start..Len(s) : MatchAt(s, sep, i)}
    IN  IF hits = {}
        THEN <<SubSeq(s, start, Len(s))>>
        ELSE LET h == SetMin(hits)
             IN  <<SubSeq(s, start, h - 1)>> \o SplitFrom(s, sep, h + Len(sep))

Split(s, sep) == SplitFrom(s, sep, 1)

RECURSIVE Concat(_)
Concat(ss) == IF ss = <<>> THEN <<>> ELSE Head(ss) \o Concat(Tail(ss))

----------------------------------------------------------------------------
(* chunk_by_sections *)

HeaderSep == <<"\n", "#", "#", " ">>
HeaderMark == <<"#", "#", " ">>
MIN_CHUNK_LEN == 100

\* variant: the marker is not put back on later sections
ChunkText_no_marker(sections, i) == sections[i + 1]

\* chunk_text of the i-th (0-based) split section
ChunkText(sections, i) ==
    IF i = 0 THEN sections[1] ELSE HeaderMark \o sections[i + 1]

RECURSIVE CollectChunks(_, _)
CollectChunks(sections, i) ==
    IF i >= Len(sections) THEN <<>>
    ELSE LET chunk_text == ChunkText(sections, i)
         IN  (IF Len(Strip(chunk_text)) > MIN_CHUNK_LEN
              THEN <<[text |-> Strip(chunk_text),
                      length |-> Len(chunk_text),
                      chunk_id |-> i]>>
              ELSE <<>>) \o CollectChunks(sections, i + 1)

\* variant: ids renumbered by rank among the kept chunks
chunk_by_sections_rank(text) ==
    LET kept == CollectChunks(Split(text, HeaderSep), 0)
    IN  [k \in 1..Len(kept) |-> [kept[k] EXCEPT !.chunk_id = k - 1]]

\* variant: the filter looks at the untrimmed length and keeps 100 itself
chunk_by_sections_raw(text) ==
    LET sections == Split(text, HeaderSep)
        cand == [i \in 1..Len(sections) |->
                    [text |-> Strip(ChunkText(sections, i - 1)),
                     length |-> Len(ChunkText(sections, i - 1)),
                     chunk_id |-> i - 1]]
        Keep(c) == c.length >= MIN_CHUNK_LEN
    IN  SelectSeq(cand, Keep)

\* variant: ids counted from 1
chunk_by_sections_one(text) ==
    LET kept == CollectChunks(Split(text, HeaderSep), 0)
    IN  [k \in 1..Len(kept) |-> [kept[k] EXCEPT !.chunk_id = @ + 1]]

chunk_by_sections(text) == CollectChunks(Split(text, HeaderSep), 0)

----------------------------------------------------------------------------
(* Inputs of the chunker specification *)

LongBody == Rep("a", 98)
EdgeBody == Rep("a", 97)

Pieces == { HeaderSep \o LongBody,     \* a section of 101 characters
            HeaderSep \o EdgeBody,     \* a section of exactly 100 characters
            HeaderSep,
            HeaderMark,
            Rep("a", 100),
            <<"a">>, <<" ">> }

RECURSIVE PieceSeqs(_)
PieceSeqs(n) ==
    IF n = 0 THEN {<<>>}
    ELSE LET shorter == PieceSeqs(n - 1)
         IN  shorter \cup {Append(ps, p) : ps \in {q \in shorter : Len(q) = n - 1},
                                          p \in Pieces}

ExampleVariables ==
    <<"#", "#", " ", "V", "a", "r", "i", "a", "b", "l", "e", "s", "\n",
      "A", " ", "v", "a", "r", "i", "a", "b", "l", "e", " ", "s", "t", "o",
      "r", "e", "s", " ", "a", " ", "v", "a", "l", "u", "e", ".">>
ExampleLoops ==
    <<"\n", "#", "#", " ", "L", "o", "o", "p", "s", "\n", "A", " ", "l", "o",
      "o", "p", " ", "r", "e", "p", "e", "a", "t", "s", " ", "c", "o", "d",
      "e", " ", "m", "a", "n", "y", " ", "t", "i", "m", "e", "s", " ", "o",
      "v", "e", "r", " ", "a", "n", "d", " ", "o", "v", "e", "r", " ", "f",
      "o", "r", " ", "t", "e", "s", "t", "i", "n", "g", " ", "p", "u", "r",
      "p", "o", "s", "e", "s", " ", "h", "e", "r", "e", ".">>
ExampleText == ExampleVariables \o ExampleLoops \o Rep("x", 25)

ChunkerInputs == {Concat(ps) : ps \in PieceSeqs(MaxPieces)} \cup {ExampleText}

----------------------------------------------------------------------------
(* State shared by the specifications *)

Absent == [state |-> "absent"]
Corrupt == [state |-> "corrupt"]
Stored(d) == [state |-> "ok", data |-> d]
Exists(f) == f.state # "absent"

NoArray == [ndim |-> 0, data |-> <<>>]
NoRet == [call |-> "none"]
NoWork == [chunker |-> 0, encoded |-> 0, writes |-> 0, failed |-> 0]
NotStarted == [chunks |-> Absent, emb |-> Absent]
NoSource == [chunks |-> <<>>, emb |-> <<>>]

NoWriter == [chunks |-> 0, emb |-> 0]

\* no browser session is open
NoSession == [open |-> FALSE]

IdleProcess ==
    /\ filenames = <<>>
    /\ lecture_content = <<>>
    /\ lecture_chunks = <<>>
    /\ emb_list = <<>>
    /\ chunk_embeddings = NoArray
    /\ ret = NoRet
    /\ path = "none"
    /\ work = NoWork
    /\ at_start = NotStarted

CleanDisk ==
    /\ chunksFile = Absent
    /\ embFile = Absent
    /\ run = 0
    /\ wrote = {}
    /\ deleted = FALSE
    /\ cached_from = NoSource
    /\ written_by = NoWriter

----------------------------------------------------------------------------
(* The chunker on its own: the text is the input, one step applies it *)

InitChunker ==
    /\ CleanDisk
    /\ lectures = <<>>
    /\ filenames = <<>>
    /\ lecture_chunks = <<>>
    /\ emb_list = <<>>
    /\ chunk_embeddings = NoArray
    /\ ret = NoRet
    /\ path = "none"
    /\ work = NoWork
    /\ at_start = NotStarted
    /\ sort_kind = "low_first"
    /\ session_state = NoSession
    /\ lecture_content \in ChunkerInputs
    /\ pc = "text"

ChunkOnly ==
    /\ pc = "text"
    /\ lecture_chunks' = chunk_by_sections(lecture_content)
    /\ pc' = "chunked"
    /\ UNCHANGED <<session_state, written_by, lectures, chunksFile, embFile, filenames, lecture_content,
                   emb_list, chunk_embeddings, ret, sort_kind, run, path,
                   work, wrote, deleted,
                   at_start, cached_from>>

NextChunker == ChunkOnly

SpecChunker == InitChunker /\ [][NextChunker]_vars

----------------------------------------------------------------------------
(* Properties of the chunker *)

ExampleVariablesHead == SubSeq(ExampleVariables, 1, 12)   \* "## Variables"
ExampleLoopsHead == SubSeq(ExampleLoops, 2, 9)            \* "## Loops"

ExampleChunked == pc = "chunked" /\ lecture_content = ExampleText

\* C4 as stated: the example corpus yields exactly 2 chunks, ids 0 and 1,
\* whose texts start with "## Variables" and "## Loops".
Cex_C4 ==
    ExampleChunked =>
        /\ Len(lecture_chunks) = 2
        /\ lecture_chunks[1].chunk_id = 0
        /\ lecture_chunks[2].chunk_id = 1
        /\ StartsWith(lecture_chunks[1].text, ExampleVariablesHead)
        /\ StartsWith(lecture_chunks[2].text, ExampleLoopsHead)

\* C4 amended: the example corpus yields exactly 1 chunk, with id 1, whose
\* text starts with "## Loops"; the 39-character "## Variables" segment is
\* not longer than 100 characters and is dropped.
Thm_C4 ==
    ExampleChunked =>
        /\ Len(lecture_chunks) = 1
        /\ lecture_chunks[1].chunk_id = 1
        /\ StartsWith(lecture_chunks[1].text, ExampleLoopsHead)
        /\ Len(Strip(ExampleVariables)) <= MIN_CHUNK_LEN

Wit_C4 == ExampleChunked /\ Len(lecture_chunks) > 0

\* the candidate segment at 0-based position i of the split sequence ss,
\* marker restored
Segment(ss, i) == IF i = 0 THEN ss[1] ELSE HeaderMark \o ss[i + 1]

\* C5: every chunk's id is the position of its segment in the pre-filter
\* split sequence (not its rank among the kept chunks), and ids are strictly
\* increasing along the chunk sequence.
Thm_C5 ==
    pc = "chunked" =>
        LET ss == Split(lecture_content, HeaderSep)
        IN  \A k \in 1..Len(lecture_chunks) :
                LET c == lecture_chunks[k]
                IN  /\ c.chunk_id \in 0..(Len(ss) - 1)
                    /\ c.text = Strip(Segment(ss, c.chunk_id))
                    /\ c.length = Len(Segment(ss, c.chunk_id))
                    /\ k > 1 => lecture_chunks[k - 1].chunk_id < c.chunk_id

\* two chunks survive around a dropped segment, so id and rank differ
Wit_C5 ==
    /\ pc = "chunked"
    /\ Len(lecture_chunks) = 2
    /\ lecture_chunks[1].chunk_id = 0
    /\ lecture_chunks[2].chunk_id = 2

RECURSIVE Rejoin(_)
Rejoin(ss) ==
    IF Len(ss) <= 1 THEN Concat(ss)
    ELSE Head(ss) \o <<"\n">> \o HeaderMark \o Rejoin(Tail(ss))

\* C7: the first split segment is kept as-is, the "## " marker is put back
\* on every later one, so a stored chunk with id > 0 begins with "## ", and
\* the segments joined with a newline before each restored marker give back
\* the input text.
Thm_C7 ==
    pc = "chunked" =>
        LET ss == Split(lecture_content, HeaderSep)
        IN  /\ \A k \in 1..Len(lecture_chunks) :
                  LET c == lecture_chunks[k]
                  IN  IF c.chunk_id = 0
                      THEN /\ c.text = Strip(ss[1])
                           /\ c.length = Len(ss[1])
                      ELSE /\ StartsWith(c.text, HeaderMark)
                           /\ c.text = Strip(HeaderMark \o ss[c.chunk_id + 1])
                           /\ c.length = Len(ss[c.chunk_id + 1]) + 3
            /\ Rejoin(ss) = lecture_content

\* a first segment stored without a marker of its own and a later one stored
\* with the restored marker
Wit_C7 ==
    /\ pc = "chunked"
    /\ \E k \in 1..Len(lecture_chunks) :
          /\ lecture_chunks[k].chunk_id = 0
          /\ ~StartsWith(lecture_chunks[k].text, HeaderMark)
    /\ \E k \in 1..Len(lecture_chunks) : lecture_chunks[k].chunk_id > 0

----------------------------------------------------------------------------
(* The lecture directory *)

FileNames == {"lec1.md", "lec2.md"}
DocNames == {"A", "B"}

\* A: a one-character preamble and one long section of a's
\* B: a long first section of b's and a one-character section
DocText(d) ==
    IF d = "A"
    THEN <<"x">> \o HeaderSep \o Rep("a", 98) \o <<"\n">>
    ELSE HeaderMark \o Rep("b", 98) \o HeaderSep \o <<"x", "\n">>

Directories == UNION {[S -> DocNames] : S \in SUBSET FileNames}

\* the orders in which glob() may list the files of a directory
Orders(S) ==
    {q \in [1..Cardinality(S) -> S] :
        \A i, j \in 1..Cardinality(S) : i # j => q[i] # q[j]}

\* the read-and-concatenate loop over filenames
ReadAll(dir, names) == Concat([i \in 1..Len(names) |-> DocText(dir[names[i]])])

----------------------------------------------------------------------------
(* The embedder and the numpy operations *)

Count(t, c) == Cardinality({i \in 1..Len(t) : t[i] = c})

\* embedding_model.encode: a deterministic map from text to a vector, here
\* by which of the letters a, b and c the text uses (components in tenths)
Encode(t) ==
    LET na == Count(t, "a")
        nb == Count(t, "b")
    IN  IF na > 0 /\ nb = 0 THEN <<10, 0>>
        ELSE IF nb > 0 /\ na = 0 THEN <<0, 10>>
        ELSE IF na > 0 THEN <<7, 7>>
        ELSE IF Count(t, "c") > 0 THEN <<2, 0>>
        ELSE <<1, 1>>

RECURSIVE DotFrom(_, _, _)
DotFrom(u, v, i) ==
    IF i > Len(u) THEN 0 ELSE u[i] * v[i] + DotFrom(u, v, i + 1)

Dot(u, v) == DotFrom(u, v, 1)

\* variant: the last vector is lost when stacking
NpArray_short(list) ==
    IF list = <<>> THEN [ndim |-> 1, data |-> <<>>]
    ELSE [ndim |-> 2, data |-> SubSeq(list, 1, Len(list) - 1)]

\* np.array(list of vectors): shape (n, d), but shape (0,) for an empty list
NpArray(list) ==
    IF list = <<>> THEN [ndim |-> 1, data |-> <<>>]
    ELSE [ndim |-> 2, data |-> list]

\* shape[0]
NpRows(m) == Len(m.data)

Raise(e) == [kind |-> "error", exc |-> e]

\* np.dot(matrix, vector)
NpDot(m, q) ==
    IF m.ndim = 2
    THEN [kind |-> "ok", value |-> [i \in 1..Len(m.data) |-> Dot(m.data[i], q)]]
    ELSE IF Len(m.data) # Len(q)
    THEN Raise("ValueError")        \* shapes not aligned
    ELSE Raise("IndexError")        \* a 0-d result cannot be indexed

\* np.argsort: 0-based indices in ascending order of value; kind fixes the
\* order of equal values
ArgSort(sims, kind) ==
    LET n == Len(sims)
        Before(j, i) ==
            \/ sims[j] < sims[i]
            \/ sims[j] = sims[i] /\ (IF kind = "low_first" THEN j < i ELSE j > i)
        Rank(i) == Cardinality({j \in 1..n : Before(j, i)})
    IN  [p \in 1..n |-> (CHOOSE i \in 1..n : Rank(i) = p - 1) - 1]

\* variant: a[:k]
LastK_first(a, k) == IF k >= Len(a) THEN a ELSE SubSeq(a, 1, k)

\* a[-k:] for k >= 1
LastK(a, k) == IF k >= Len(a) THEN a ELSE SubSeq(a, Len(a) - k + 1, Len(a))

\* variant: the order is left as it is
Reverse_none(a) == a

\* a[::-1]
Reverse(a) == [i \in 1..Len(a) |-> a[Len(a) - i + 1]]

\* variant: the ranked index is looked up among the chunk ids
search_chunks_by_id(chunks, matrix, kind, query, top_k) ==
    LET dot == NpDot(matrix, Encode(query))
    IN  IF dot.kind = "error" THEN dot
        ELSE LET top == Reverse(LastK(ArgSort(dot.value, kind), top_k))
                 At(idx) == {k \in 1..Len(chunks) : chunks[k].chunk_id = idx}
             IN  IF \E j \in 1..Len(top) : At(top[j]) = {}
                 THEN Raise("IndexError")
                 ELSE [kind |-> "ok",
                       top_indices |-> top,
                       results |-> [j \in 1..Len(top) |->
                           [chunk |-> chunks[CHOOSE k \in At(top[j]) : TRUE],
                            similarity |-> dot.value[top[j] + 1]]]]

search_chunks(chunks, matrix, kind, query, top_k) ==
    LET dot == NpDot(matrix, Encode(query))
    IN  IF dot.kind = "error" THEN dot
        ELSE LET top == Reverse(LastK(ArgSort(dot.value, kind), top_k))
             IN  IF \E j \in 1..Len(top) : top[j] + 1 > Len(chunks)
                 THEN Raise("IndexError")
                 ELSE [kind |-> "ok",
                       top_indices |-> top,
                       results |-> [j \in 1..Len(top) |->
                           [chunk |-> chunks[top[j] + 1],
                            similarity |-> dot.value[top[j] + 1]]]]

SIM_THRESHOLD == 20      \* 0.2 in hundredths

\* variant: a best similarity equal to the threshold counts as too low
rag_answer_at_most(chunks, matrix, kind, question, max_chunks, gen) ==
    LET found == search_chunks(chunks, matrix, kind, question, max_chunks)
    IN  IF found.kind = "error" THEN found
        ELSE IF found.results = <<>> THEN Raise("IndexError")
        ELSE IF found.results[1].similarity <= SIM_THRESHOLD
        THEN [kind |-> "ok", value |-> "no_content", gen_calls |-> 0]
        ELSE IF gen = "ok"
        THEN [kind |-> "ok", value |-> "answer", gen_calls |-> 1]
        ELSE [kind |-> "error", exc |-> "completion", gen_calls |-> 1]

\* rag_answer; gen is what the completion call does if it is reached
rag_answer(chunks, matrix, kind, question, max_chunks, gen) ==
    LET found == search_chunks(chunks, matrix, kind, question, max_chunks)
    IN  IF found.kind = "error" THEN found
        ELSE IF found.results = <<>> THEN Raise("IndexError")
        ELSE IF found.results[1].similarity < SIM_THRESHOLD
        THEN [kind |-> "ok", value |-> "no_content", gen_calls |-> 0]
        ELSE IF gen = "ok"
        THEN [kind |-> "ok", value |-> "answer", gen_calls |-> 1]
        ELSE [kind |-> "error", exc |-> "completion", gen_calls |-> 1]

Queries == {<<"a">>, <<"c">>, <<"x">>}

----------------------------------------------------------------------------
(* The process: module-level load-or-build, then calls into the module *)

Init ==
    /\ lectures \in Directories
    /\ sort_kind \in {"low_first", "high_first"}
    /\ CleanDisk
    /\ IdleProcess
    /\ session_state = NoSession
    /\ pc = "off"

ProcessGone ==
    /\ pc' = "off"
    /\ filenames' = <<>>
    /\ lecture_content' = <<>>
    /\ lecture_chunks' = <<>>
    /\ emb_list' = <<>>
    /\ chunk_embeddings' = NoArray
    /\ ret' = NoRet
    /\ path' = "none"
    /\ work' = NoWork
    /\ at_start' = NotStarted

\* variant: the test looks for a file that is never there
BothExist_wrong_name == Exists(chunksFile) /\ Exists(Absent)

\* variant: one file is taken for the pair
BothExist_either == Exists(chunksFile) \/ Exists(embFile)

\* os.path.exists(CHUNKS_FILE) and os.path.exists(EMBEDDINGS_FILE)
BothExist == Exists(chunksFile) /\ Exists(embFile)

\* variant: a cache that does not match the corpus read is recomputed in
\* memory
StartLoad_fresh ==
    /\ pc = "off"
    /\ run < MaxRuns
    /\ BothExist
    /\ run' = run + 1
    /\ \E names \in Orders(DOMAIN lectures) :
          IF chunksFile.state = "ok" /\ embFile.state = "ok"
          THEN /\ filenames' = names
               /\ lecture_content' = ReadAll(lectures, names)
               /\ lecture_chunks' = chunk_by_sections(lecture_content')
               /\ chunk_embeddings' =
                      NpArray([i \in 1..Len(lecture_chunks') |->
                                  Encode(lecture_chunks'[i].text)])
               /\ pc' = "ready"
               /\ path' = "load"
               /\ at_start' = [chunks |-> chunksFile, emb |-> embFile]
               /\ UNCHANGED <<emb_list, ret, work>>
          ELSE ProcessGone
    /\ UNCHANGED <<session_state, written_by, lectures, chunksFile, embFile, sort_kind, wrote, deleted,
                   cached_from>>

\* start-up with both cache files on disk: read the corpus, load the cache
StartLoad ==
    /\ pc = "off"
    /\ run < MaxRuns
    /\ BothExist
    /\ run' = run + 1
    /\ \E names \in Orders(DOMAIN lectures) :
          IF chunksFile.state = "ok" /\ embFile.state = "ok"
          THEN /\ filenames' = names
               /\ lecture_content' = ReadAll(lectures, names)
               /\ lecture_chunks' = chunksFile.data
               /\ chunk_embeddings' = embFile.data
               /\ pc' = "ready"
               /\ path' = "load"
               /\ at_start' = [chunks |-> chunksFile, emb |-> embFile]
               /\ UNCHANGED <<emb_list, ret, work>>
          ELSE ProcessGone          \* json.load or np.load raises
    /\ UNCHANGED <<session_state, written_by, lectures, chunksFile, embFile, sort_kind, wrote, deleted,
                   cached_from>>

\* start-up without the pair of cache files: read the corpus, chunk it
StartBuild ==
    /\ pc = "off"
    /\ run < MaxRuns
    /\ ~BothExist
    /\ run' = run + 1
    /\ \E names \in Orders(DOMAIN lectures) :
          /\ filenames' = names
          /\ lecture_content' = ReadAll(lectures, names)
    /\ lecture_chunks' = chunk_by_sections(lecture_content')
    /\ emb_list' = <<>>
    /\ pc' = "embed"
    /\ path' = "build"
    /\ at_start' = [chunks |-> chunksFile, emb |-> embFile]
    /\ work' = [work EXCEPT !.chunker = 1]
    /\ UNCHANGED <<session_state, written_by, lectures, chunksFile, embFile, chunk_embeddings, ret,
                   sort_kind, wrote, deleted,
                   cached_from>>

\* one turn of the embedding loop
EmbedNext ==
    /\ pc = "embed"
    /\ Len(emb_list) < Len(lecture_chunks)
    /\ emb_list' = Append(emb_list, Encode(lecture_chunks[Len(emb_list) + 1].text))
    /\ work' = [work EXCEPT !.encoded = @ + 1]
    /\ UNCHANGED <<session_state, written_by, lectures, chunksFile, embFile, pc, filenames,
                   lecture_content, lecture_chunks, chunk_embeddings, ret,
                   sort_kind, run, path, wrote, deleted,
                   at_start, cached_from>>

\* variant: the exception is swallowed and the loop is left with the rows
\* collected so far
EmbedFails_swallowed ==
    /\ pc = "embed"
    /\ Len(emb_list) < Len(lecture_chunks)
    /\ work' = [work EXCEPT !.failed = 1]
    /\ chunk_embeddings' = NpArray(emb_list)
    /\ pc' = "save_chunks"
    /\ UNCHANGED <<session_state, written_by, lectures, chunksFile, embFile, filenames,
                   lecture_content, lecture_chunks, emb_list, ret,
                   sort_kind, run, path, wrote, deleted,
                   at_start, cached_from>>

\* embedding_model.encode raises for the chunk at hand; nothing catches it
EmbedFails ==
    /\ pc = "embed"
    /\ Len(emb_list) < Len(lecture_chunks)
    /\ work' = [work EXCEPT !.failed = 1]
    /\ pc' = "failed"
    /\ UNCHANGED <<session_state, written_by, lectures, chunksFile, embFile, filenames,
                   lecture_content, lecture_chunks, emb_list, chunk_embeddings,
                   ret, sort_kind, run, path, wrote, deleted,
                   at_start, cached_from>>

\* the exception leaves the module body: the import fails, the process ends
ImportFails ==
    /\ pc = "failed"
    /\ ProcessGone
    /\ UNCHANGED <<session_state, written_by, lectures, chunksFile, embFile, sort_kind, run, wrote, deleted,
                   cached_from>>

StackEmbeddings ==
    /\ pc = "embed"
    /\ Len(emb_list) = Len(lecture_chunks)
    /\ chunk_embeddings' = NpArray(emb_list)
    /\ pc' = "save_chunks"
    /\ UNCHANGED <<session_state, written_by, lectures, chunksFile, embFile, filenames, lecture_content,
                   lecture_chunks, emb_list, ret, sort_kind, run, path, work,
                   wrote, deleted,
                   at_start, cached_from>>

\* variant: a chunk file that is already there is kept
SaveChunks_if_missing ==
    /\ pc = "save_chunks"
    /\ IF Exists(chunksFile)
       THEN UNCHANGED <<chunksFile, wrote, cached_from, written_by>>
       ELSE /\ chunksFile' = Stored(lecture_chunks)
            /\ wrote' = wrote \cup {run}
            /\ cached_from' = [cached_from EXCEPT !.chunks = lecture_content]
            /\ written_by' = [written_by EXCEPT !.chunks = run]
    /\ work' = [work EXCEPT !.writes = @ + 1]
    /\ pc' = "save_emb"
    /\ UNCHANGED <<session_state, lectures, embFile, filenames, lecture_content,
                   lecture_chunks, emb_list, chunk_embeddings, ret, sort_kind,
                   run, path, deleted,
                   at_start>>

SaveChunks ==
    /\ pc = "save_chunks"
    /\ chunksFile' = Stored(lecture_chunks)
    /\ wrote' = wrote \cup {run}
    /\ work' = [work EXCEPT !.writes = @ + 1]
    /\ cached_from' = [cached_from EXCEPT !.chunks = lecture_content]
    /\ written_by' = [written_by EXCEPT !.chunks = run]
    /\ pc' = "save_emb"
    /\ UNCHANGED <<session_state, lectures, embFile, filenames, lecture_content,
                   lecture_chunks, emb_list, chunk_embeddings, ret, sort_kind,
                   run, path, deleted,
                   at_start>>

\* variant: the array is never saved
SaveEmbeddings_skipped ==
    /\ pc = "save_emb"
    /\ pc' = "ready"
    /\ UNCHANGED <<session_state, written_by, lectures, chunksFile, embFile, filenames, lecture_content,
                   lecture_chunks, emb_list, chunk_embeddings, ret, sort_kind,
                   run, path, work, wrote, deleted,
                   at_start, cached_from>>

SaveEmbeddings ==
    /\ pc = "save_emb"
    /\ embFile' = Stored(chunk_embeddings)
    /\ wrote' = wrote \cup {run}
    /\ work' = [work EXCEPT !.writes = @ + 1]
    /\ cached_from' = [cached_from EXCEPT !.emb = lecture_content]
    /\ written_by' = [written_by EXCEPT !.emb = run]
    /\ pc' = "ready"
    /\ UNCHANGED <<session_state, lectures, chunksFile, filenames, lecture_content,
                   lecture_chunks, emb_list, chunk_embeddings, ret, sort_kind,
                   run, path, deleted,
                   at_start>>

\* the caller makes one call at a time and takes its outcome before the next
SearchChunks ==
    /\ pc = "ready"
    /\ ret = NoRet
    /\ \E query \in Queries, top_k \in 1..MaxTopK :
          ret' = [call |-> "search_chunks", query |-> query, top_k |-> top_k,
                  out |-> search_chunks(lecture_chunks, chunk_embeddings,
                                        sort_kind, query, top_k)]
    /\ UNCHANGED <<session_state, written_by, lectures, chunksFile, embFile, pc, filenames,
                   lecture_content, lecture_chunks, emb_list, chunk_embeddings,
                   sort_kind, run, path, work, wrote, deleted,
                   at_start, cached_from>>

RagAnswer ==
    /\ pc = "ready"
    /\ ret = NoRet
    /\ \E question \in Queries, max_chunks \in 1..MaxTopK, gen \in {"ok", "fail"} :
          ret' = [call |-> "rag_answer", query |-> question, top_k |-> max_chunks,
                  out |-> rag_answer(lecture_chunks, chunk_embeddings,
                                     sort_kind, question, max_chunks, gen)]
    /\ UNCHANGED <<session_state, written_by, lectures, chunksFile, embFile, pc, filenames,
                   lecture_content, lecture_chunks, emb_list, chunk_embeddings,
                   sort_kind, run, path, work, wrote, deleted,
                   at_start, cached_from>>

\* the caller has used the outcome of its call
Return ==
    /\ pc = "ready"
    /\ ret # NoRet
    /\ ret' = NoRet
    /\ UNCHANGED <<session_state, written_by, lectures, chunksFile, embFile, pc, filenames,
                   lecture_content, lecture_chunks, emb_list, chunk_embeddings,
                   sort_kind, run, path, work, wrote, deleted,
                   at_start, cached_from>>

Exit ==
    /\ pc = "ready"
    /\ ProcessGone
    /\ UNCHANGED <<session_state, written_by, lectures, chunksFile, embFile, sort_kind, run, wrote, deleted,
                   cached_from>>

\* the process is killed during the build, between two statements
Crash ==
    /\ pc \in {"embed", "save_chunks", "save_emb"}
    /\ ProcessGone
    /\ UNCHANGED <<session_state, written_by, lectures, chunksFile, embFile, sort_kind, run, wrote, deleted,
                   cached_from>>

\* the process is killed in the middle of writing a cache file
CrashWhileSaving ==
    /\ pc \in {"save_chunks", "save_emb"}
    /\ IF pc = "save_chunks"
       THEN /\ chunksFile' = Corrupt
            /\ cached_from' = [cached_from EXCEPT !.chunks = <<>>]
            /\ written_by' = [written_by EXCEPT !.chunks = run]
            /\ UNCHANGED embFile
       ELSE /\ embFile' = Corrupt
            /\ cached_from' = [cached_from EXCEPT !.emb = <<>>]
            /\ written_by' = [written_by EXCEPT !.emb = run]
            /\ UNCHANGED chunksFile
    /\ wrote' = wrote \cup {run}
    /\ ProcessGone
    /\ UNCHANGED <<session_state, lectures, sort_kind, run, deleted>>

\* somebody edits the lecture files between two runs
EditCorpus ==
    /\ pc = "off"
    /\ lectures' \in Directories \ {lectures}
    /\ UNCHANGED <<session_state, written_by, chunksFile, embFile, pc, filenames, lecture_content,
                   lecture_chunks, emb_list, chunk_embeddings, ret, sort_kind,
                   run, path, work, wrote, deleted,
                   at_start, cached_from>>

\* somebody removes a cache file; the process touches the files only at
\* start-up and in its two writes, so a removal while it runs has the effect
\* of one made once it is gone
DeleteChunksFile ==
    /\ pc = "off"
    /\ Exists(chunksFile)
    /\ chunksFile' = Absent
    /\ deleted' = TRUE
    /\ cached_from' = [cached_from EXCEPT !.chunks = <<>>]
    /\ written_by' = [written_by EXCEPT !.chunks = 0]
    /\ UNCHANGED <<session_state, lectures, embFile, pc, filenames, lecture_content,
                   lecture_chunks, emb_list, chunk_embeddings, ret, sort_kind,
                   run, path, work, wrote,
                   at_start>>

DeleteEmbeddingsFile ==
    /\ pc = "off"
    /\ Exists(embFile)
    /\ embFile' = Absent
    /\ deleted' = TRUE
    /\ cached_from' = [cached_from EXCEPT !.emb = <<>>]
    /\ written_by' = [written_by EXCEPT !.emb = 0]
    /\ UNCHANGED <<session_state, lectures, chunksFile, pc, filenames, lecture_content,
                   lecture_chunks, emb_list, chunk_embeddings, ret, sort_kind,
                   run, path, work, wrote,
                   at_start>>

\* runs that are left to finish
NextRuns ==
    \/ StartLoad
    \/ StartBuild
    \/ EmbedNext
    \/ StackEmbeddings
    \/ SaveChunks
    \/ SaveEmbeddings
    \/ SearchChunks
    \/ RagAnswer
    \/ Return
    \/ Exit
    \/ EditCorpus
    \/ DeleteChunksFile
    \/ DeleteEmbeddingsFile

SpecRuns == Init /\ [][NextRuns]_vars

Next ==
    \/ NextRuns
    \/ Crash
    \/ CrashWhileSaving
    \/ EmbedFails
    \/ ImportFails

Spec == Init /\ [][Next]_vars

----------------------------------------------------------------------------
(* Properties of the chunk store *)

EmptyStore == pc = "ready" /\ lecture_chunks = <<>>

\* C2: search_chunks on a store with zero chunks returns an empty result
\* list for any query and any top_k >= 1, and does not fail.
Cex_C2 ==
    (EmptyStore /\ ret.call = "search_chunks") =>
        (ret.out.kind = "ok" /\ ret.out.results = <<>>)

\* C3: with zero chunks, rag_answer gives its "no results" outcome instead
\* of raising.
Cex_C3 ==
    (EmptyStore /\ ret.call = "rag_answer") =>
        (ret.out.kind = "ok" /\ ret.out.value = "no_content")

\* C8: after a build, row i of the array is the embedding of the text of the
\* chunk at position i, and search_chunks returns for each ranked row index
\* the chunk at that position with that row's similarity, also where the
\* chunk's id differs from its position.
Thm_C8 ==
    (pc = "ready" /\ path = "build") =>
        /\ NpRows(chunk_embeddings) = Len(lecture_chunks)
        /\ \A i \in 1..Len(lecture_chunks) :
              chunk_embeddings.data[i] = Encode(lecture_chunks[i].text)
        /\ (ret.call = "search_chunks" /\ lecture_chunks # <<>>) =>
              /\ ret.out.kind = "ok"
              /\ Len(ret.out.results) = Len(ret.out.top_indices)
              /\ \A j \in 1..Len(ret.out.results) :
                    LET r == ret.out.results[j]
                        idx == ret.out.top_indices[j]
                    IN  /\ idx \in 0..(Len(lecture_chunks) - 1)
                        /\ r.chunk = lecture_chunks[idx + 1]
                        /\ r.similarity =
                               Dot(chunk_embeddings.data[idx + 1], Encode(ret.query))

\* a search on a built store returns a chunk whose id is not its position
Wit_C8 ==
    /\ pc = "ready"
    /\ path = "build"
    /\ ret.call = "search_chunks"
    /\ ret.out.kind = "ok"
    /\ \E j \in 1..Len(ret.out.results) :
          ret.out.results[j].chunk.chunk_id # ret.out.top_indices[j]

\* C9: a start-up that finds both cache files leaves the disk as it is, runs
\* neither the chunker nor the embedder on a chunk, and its store is the
\* content of the two files whatever the corpus now says; this stays so for
\* the rest of that run.
Thm_C9 ==
    /\ [][ (pc = "off" /\ Exists(chunksFile) /\ Exists(embFile) /\ run' # run) =>
              /\ UNCHANGED <<chunksFile, embFile, wrote>>
              /\ work' = NoWork
              /\ emb_list' = <<>>
              /\ pc' \in {"ready", "off"}
              /\ pc' = "ready" =>
                    /\ path' = "load"
                    /\ lecture_chunks' = chunksFile.data
                    /\ chunk_embeddings' = embFile.data ]_vars
    /\ [][ (path = "load" /\ path' = "load") =>
              UNCHANGED <<lecture_chunks, chunk_embeddings, chunksFile,
                          embFile, work, wrote>> ]_vars
    /\ [](path = "load" => (pc = "ready" /\ work = NoWork))

\* a loaded store that is not what chunking the current corpus would give
Wit_C9 ==
    /\ pc = "ready"
    /\ path = "load"
    /\ lecture_chunks # chunk_by_sections(lecture_content)
    /\ chunksFile = Stored(lecture_chunks)
    /\ embFile = Stored(chunk_embeddings)

----------------------------------------------------------------------------
(* Properties of the cache across runs *)

\* the store a build computes from a corpus text
ChunksOf(text) == chunk_by_sections(text)
ArrayOf(text) ==
    LET cs == ChunksOf(text)
    IN  NpArray([i \in 1..Len(cs) |-> Encode(cs[i].text)])

\* C11: a run that loads the cache serves the chunks and the embeddings of
\* the corpus the cache was built from, not those of the corpus as it has
\* been edited since, and goes on serving them until it ends.
Thm_C11 ==
    /\ [][ (pc = "off" /\ pc' = "ready") =>
              /\ path' = "load"
              /\ lecture_chunks' = ChunksOf(cached_from.chunks)
              /\ chunk_embeddings' = ArrayOf(cached_from.emb) ]_vars
    /\ [][ (path = "load" /\ path' = "load") =>
              UNCHANGED <<lecture_chunks, chunk_embeddings, cached_from>> ]_vars

\* the cache was built from one corpus and is served over another
Wit_C11 ==
    /\ pc = "ready"
    /\ path = "load"
    /\ ~deleted
    /\ cached_from.chunks = cached_from.emb
    /\ cached_from.chunks # lecture_content
    /\ lecture_chunks # ChunksOf(lecture_content)
    /\ chunk_embeddings # ArrayOf(lecture_content)

\* exactly one of the two cache files was there when the process started
OneAtStart == Exists(at_start.chunks) # Exists(at_start.emb)

\* C12: a start-up that finds exactly one of the two cache files takes the
\* build branch: the corpus is chunked and embedded afresh, and a build that
\* finishes has written both files with the new store.
Thm_C12 ==
    /\ [][ (pc = "off" /\ run' # run /\ Exists(chunksFile) # Exists(embFile)) =>
              /\ pc' = "embed"
              /\ path' = "build"
              /\ lecture_chunks' = ChunksOf(lecture_content')
              /\ emb_list' = <<>> ]_vars
    /\ []((pc # "off" /\ OneAtStart) => (path = "build" /\ work.chunker = 1))
    /\ []((pc = "ready" /\ OneAtStart) =>
              /\ work.encoded = Len(lecture_chunks)
              /\ work.writes = 2
              /\ chunk_embeddings =
                     NpArray([i \in 1..Len(lecture_chunks) |->
                                 Encode(lecture_chunks[i].text)])
              /\ chunksFile = Stored(lecture_chunks)
              /\ embFile = Stored(chunk_embeddings))

\* a stale chunk file without its array was found and both files now hold a
\* different, newly built store
Wit_C12 ==
    /\ pc = "ready"
    /\ at_start.chunks.state = "ok"
    /\ at_start.emb = Absent
    /\ chunksFile # at_start.chunks
    /\ embFile.state = "ok"
    /\ Len(lecture_chunks) > 0

\* both cache files were readable at start-up but the array has a different
\* number of rows than there are chunk records
MismatchAtStart ==
    /\ at_start.chunks.state = "ok"
    /\ at_start.emb.state = "ok"
    /\ Len(at_start.chunks.data) # NpRows(at_start.emb.data)

\* C13: a process that found both cache files with differing chunk and row
\* counts treats the cache as absent and rebuilds the store.
Cex_C13 == (pc # "off" /\ MismatchAtStart) => path = "build"

\* C14: once the embedder has failed for a chunk the build is over: the
\* process holds no embedding array, has written neither cache file (both
\* are as the process found them), and its only further step is to end.
Thm_C14 ==
    /\ [](work.failed > 0 =>
              /\ pc = "failed"
              /\ path = "build"
              /\ chunk_embeddings = NoArray
              /\ work.writes = 0
              /\ run \notin wrote
              /\ chunksFile = at_start.chunks
              /\ embFile = at_start.emb)
    /\ [][ pc = "failed" =>
              /\ pc' = "off"
              /\ UNCHANGED <<chunksFile, embFile, wrote>> ]_vars

\* the embedder failed after some chunks were embedded, with an older chunk
\* file on disk that stays as it was
Wit_C14 ==
    /\ pc = "failed"
    /\ work.encoded > 0
    /\ work.encoded < Len(lecture_chunks)
    /\ chunksFile.state = "ok"
    /\ embFile = Absent

\* the file names of the directory in ascending order
SortedNames(dir) ==
    SelectSeq(<<"lec1.md", "lec2.md">>, LAMBDA n : n \in DOMAIN dir)

\* C15: the text handed to the chunker is the concatenation of the lecture
\* files in file-name order, whatever order the listing gave.
Cex_C15 ==
    (pc # "off" /\ path = "build") =>
        lecture_content = ReadAll(lectures, SortedNames(lectures))

----------------------------------------------------------------------------
(* Properties of retrieval and of the answer *)

\* a search has returned on a store with one embedding row per chunk
SearchDone ==
    /\ pc = "ready"
    /\ ret.call = "search_chunks"
    /\ NpRows(chunk_embeddings) = Len(lecture_chunks)

Min(a, b) == IF a < b THEN a ELSE b

\* C16: on a store of n chunks, search_chunks with top_k >= 1 returns
\* exactly min(top_k, n) results, whatever the similarities are.
Cex_C16 ==
    SearchDone =>
        /\ ret.out.kind = "ok"
        /\ Len(ret.out.results) = Min(ret.top_k, Len(lecture_chunks))

\* the similarity of the query of the finished call with row i of the store
SimOfRow(i) == Dot(chunk_embeddings.data[i], Encode(ret.query))

\* C17: the results of a search are min(top_k, n) different chunks in order
\* of non-increasing similarity, and no chunk that was left out has a
\* similarity greater than that of a returned one.
Thm_C17 ==
    (SearchDone /\ ret.out.kind = "ok") =>
        LET res == ret.out.results
            top == ret.out.top_indices
            In  == {top[j] + 1 : j \in 1..Len(top)}
        IN  /\ Len(res) = Min(ret.top_k, Len(lecture_chunks))
            /\ Cardinality(In) = Len(res)
            /\ \A j \in 1..Len(res) : res[j].similarity = SimOfRow(top[j] + 1)
            /\ \A j \in 1..(Len(res) - 1) :
                  res[j].similarity >= res[j + 1].similarity
            /\ \A i \in (1..Len(lecture_chunks)) \ In :
                  \A j \in 1..Len(res) : SimOfRow(i) <= res[j].similarity

\* a search with top_k = 1 on two chunks returned the second chunk and left
\* out the first, whose similarity is smaller
Wit_C17 ==
    /\ SearchDone
    /\ ret.out.kind = "ok"
    /\ Len(lecture_chunks) = 2
    /\ ret.out.top_indices = <<1>>
    /\ SimOfRow(1) < ret.out.results[1].similarity

\* C18: for the store and query of a finished search with top_k = k, the
\* search with any smaller k' returns exactly the first k' of its results,
\* also when similarities are equal.
Thm_C18 ==
    (SearchDone /\ ret.out.kind = "ok") =>
        \A k \in 1..(ret.top_k - 1) :
            LET fewer == search_chunks(lecture_chunks, chunk_embeddings,
                                       sort_kind, ret.query, k)
            IN  /\ fewer.kind = "ok"
                /\ fewer.results =
                       SubSeq(ret.out.results, 1, Min(k, Len(ret.out.results)))

\* a search with top_k >= 2 returned two different chunks of equal similarity
Wit_C18 ==
    /\ SearchDone
    /\ ret.out.kind = "ok"
    /\ ret.top_k >= 2
    /\ Len(ret.out.results) = 2
    /\ ret.out.results[1].similarity = ret.out.results[2].similarity
    /\ ret.out.results[1].chunk # ret.out.results[2].chunk

\* rag_answer has returned or raised on a store that has chunks and one
\* embedding row for each
AnswerDone ==
    /\ pc = "ready"
    /\ ret.call = "rag_answer"
    /\ lecture_chunks # <<>>
    /\ NpRows(chunk_embeddings) = Len(lecture_chunks)

\* the greatest similarity of the question with any row of the store
BestSim == SetMax({SimOfRow(i) : i \in 1..Len(lecture_chunks)})

\* C19: if the best similarity is below 0.2 rag_answer returns the fixed
\* message and the completion call is not made; if it is 0.2 or more the
\* completion call is made exactly once and its text, if any, is returned.
Thm_C19 ==
    AnswerDone =>
        IF BestSim < 20
        THEN ret.out = [kind |-> "ok", value |-> "no_content", gen_calls |-> 0]
        ELSE /\ ret.out.gen_calls = 1
             /\ ret.out.kind = "ok" => ret.out.value = "answer"

\* an answer was generated for a question whose best similarity is exactly
\* 0.2
Wit_C19 ==
    /\ AnswerDone
    /\ BestSim = 20
    /\ ret.out = [kind |-> "ok", value |-> "answer", gen_calls |-> 1]

----------------------------------------------------------------------------
(* The trimming of a retrieved chunk in rag_answer, on its own: the chunk
   text is the input, one step applies the trimming *)

MaxExtra == 1

TRUNCATE_AT == 1500

Terminators == {".", "?", "!"}

\* s[:n]
Prefix(s, n) == SubSeq(s, 1, IF n < Len(s) THEN n ELSE Len(s))

\* s.rfind(c): the 0-based index of the last c in s, -1 if there is none
RFind(s, c) == SetMax({i - 1 : i \in {j \in 1..Len(s) : s[j] = c}} \cup {-1})

\* the text of one retrieved chunk as it is put into the context
TrimToSentence(text) ==
    LET chunk_text == Prefix(text, TRUNCATE_AT)
        last_sentence_end ==
            SetMax({RFind(chunk_text, "."), RFind(chunk_text, "?"),
                    RFind(chunk_text, "!")})
    IN  IF last_sentence_end > 0
        THEN Prefix(chunk_text, last_sentence_end + 1)
        ELSE chunk_text

\* 0-based positions at which the input texts may differ from plain letters:
\* the first two characters and those around the cut
MarkAt == {0, 1, TRUNCATE_AT - 2, TRUNCATE_AT - 1, TRUNCATE_AT}

\* texts one character shorter than the cut up to MaxExtra characters longer
TrimInputs ==
    {[i \in 1..n |-> IF i - 1 \in MarkAt THEN m[i - 1] ELSE "w"] :
        n \in (TRUNCATE_AT - 1)..(TRUNCATE_AT + MaxExtra),
        m \in [MarkAt -> Terminators \cup {"w"}]}

InitTrim ==
    /\ CleanDisk
    /\ lectures = <<>>
    /\ filenames = <<>>
    /\ lecture_content = <<>>
    /\ emb_list = <<>>
    /\ chunk_embeddings = NoArray
    /\ ret = NoRet
    /\ path = "none"
    /\ work = NoWork
    /\ at_start = NotStarted
    /\ sort_kind = "low_first"
    /\ session_state = NoSession
    /\ \E t \in TrimInputs :
          lecture_chunks = <<[text |-> t, length |-> Len(t), chunk_id |-> 0]>>
    /\ pc = "retrieved"

TrimOnly ==
    /\ pc = "retrieved"
    /\ ret' = [call |-> "trim", out |-> TrimToSentence(lecture_chunks[1].text)]
    /\ pc' = "trimmed"
    /\ UNCHANGED <<session_state, written_by, lectures, chunksFile, embFile, filenames, lecture_content,
                   lecture_chunks, emb_list, chunk_embeddings, sort_kind, run,
                   path, work, wrote, deleted, at_start, cached_from>>

NextTrim == TrimOnly

SpecTrim == InitTrim /\ [][NextTrim]_vars

\* C20: for a chunk text longer than 1500 characters with a '.', '?' or '!'
\* among its first 1500 characters, at position 0 or later, the text put
\* into the context ends with one of these characters.
Cex_C20 ==
    LET text == lecture_chunks[1].text
    IN  (/\ pc = "trimmed"
         /\ Len(text) > 1500
         /\ \E i \in 1..1500 : text[i] \in Terminators)
        => (ret.out # <<>> /\ ret.out[Len(ret.out)] \in Terminators)

----------------------------------------------------------------------------
(* The writers of the two cache files *)

\* C29: as long as nobody removes a cache file, whatever builds, kills
\* between or during the two writes, failed builds and restarts came before,
\* a process that has loaded the cache holds a chunk list and an array that
\* were written by one and the same build.
Thm_C29 ==
    (pc = "ready" /\ path = "load" /\ ~deleted) =>
        /\ written_by.chunks > 0
        /\ written_by.chunks = written_by.emb

\* the cache was loaded after an earlier run had written a file and died
\* before the pair was complete
Wit_C29 ==
    /\ pc = "ready"
    /\ path = "load"
    /\ ~deleted
    /\ Cardinality(wrote) >= 2
    /\ written_by.chunks = written_by.emb
    /\ written_by.chunks >= 2

----------------------------------------------------------------------------
(* Answer checking (game_logic.py) *)

Uppers == <<"A", "B", "C", "D", "E", "F", "G", "H", "I", "J", "K", "L", "M", "N", "O", "P", "Q", "R", "S", "T", "U", "V", "W", "X", "Y", "Z">>
Lowers == <<"a", "b", "c", "d", "e", "f", "g", "h", "i", "j", "k", "l", "m", "n", "o", "p", "q", "r", "s", "t", "u", "v", "w", "x", "y", "z">>

\* str.lower()
Lower(s) ==
    [i \in 1..Len(s) |->
        IF \E k \in 1..Len(Uppers) : Uppers[k] = s[i]
        THEN Lowers[CHOOSE k \in 1..Len(Uppers) : Uppers[k] = s[i]]
        ELSE s[i]]

\* str.strip(chars)
StripOf(s, chars) ==
    LET keep == {i \in 1..Len(s) : s[i] \notin chars}
    IN  IF keep = {} THEN <<>> ELSE SubSeq(s, SetMin(keep), SetMax(keep))

\* the loop "for p in ps: if t.startswith(p): t = t[len(p):]; break"
DropFirst(t, ps) ==
    LET hits == {k \in 1..Len(ps) : StartsWith(t, ps[k])}
    IN  IF hits = {} THEN t
        ELSE SubSeq(t, Len(ps[SetMin(hits)]) + 1, Len(t))

prefixes ==
    <<<<"w", "h", "a", "t", " ", "i", "s", " ">>,
      <<"w", "h", "a", "t", "'", "s", " ">>,
      <<"w", "h", "a", "t", "s", " ">>,
      <<"w", "h", "o", " ", "i", "s", " ">>,
      <<"w", "h", "o", "'", "s", " ">>,
      <<"w", "h", "o", "s", " ">>,
      <<"w", "h", "e", "r", "e", " ", "i", "s", " ">>,
      <<"w", "h", "e", "r", "e", "'", "s", " ">>,
      <<"w", "h", "e", "r", "e", "s", " ">>>>

articles == <<<<"t", "h", "e", " ">>, <<"a", " ">>, <<"a", "n", " ">>>>

_normalize_answer(text) ==
    LET t0 == Lower(Strip(text))
        t1 == DropFirst(t0, prefixes)
        t2 == DropFirst(t1, articles)
    IN  StripOf(t2, {" ", ".", "!", "?", "\"", "'"})

SYNONYMS ==
    <<{<<"a", "u", "r", "o", "r", "a", " ", "b", "o", "r", "e", "a", "l", "i", "s">>,
        <<"n", "o", "r", "t", "h", "e", "r", "n", " ", "l", "i", "g", "h", "t", "s">>},
      {<<"a", "u", "r", "o", "r", "a", " ", "a", "u", "s", "t", "r", "a", "l", "i", "s">>,
        <<"s", "o", "u", "t", "h", "e", "r", "n", " ", "l", "i", "g", "h", "t", "s">>},
      {<<"a", "u", "r", "o", "r", "a">>,
        <<"a", "u", "r", "o", "r", "a", " ", "b", "o", "r", "e", "a", "l", "i", "s">>,
        <<"n", "o", "r", "t", "h", "e", "r", "n", " ", "l", "i", "g", "h", "t", "s">>},
      {<<"s", "o", "l">>,
        <<"s", "u", "n">>},
      {<<"t", "e", "r", "r", "a">>,
        <<"e", "a", "r", "t", "h">>},
      {<<"l", "u", "n", "a">>,
        <<"m", "o", "o", "n">>},
      {<<"h", "2", "o">>,
        <<"w", "a", "t", "e", "r">>},
      {<<"e", "l", "e", "c", "t", "r", "o", "m", "a", "g", "n", "e", "t", "i", "c", " ", "r", "a", "d", "i", "a", "t", "i", "o", "n">>,
        <<"l", "i", "g", "h", "t">>},
      {<<"h", "u", "b", "b", "l", "e">>,
        <<"h", "u", "b", "b", "l", "e", " ", "s", "p", "a", "c", "e", " ", "t", "e", "l", "e", "s", "c", "o", "p", "e">>},
      {<<"i", "s", "s">>,
        <<"i", "n", "t", "e", "r", "n", "a", "t", "i", "o", "n", "a", "l", " ", "s", "p", "a", "c", "e", " ", "s", "t", "a", "t", "i", "o", "n">>},
      {<<"m", "i", "l", "k", "y", " ", "w", "a", "y">>,
        <<"m", "i", "l", "k", "y", " ", "w", "a", "y", " ", "g", "a", "l", "a", "x", "y">>},
      {<<"c", "m", "e">>,
        <<"c", "o", "r", "o", "n", "a", "l", " ", "m", "a", "s", "s", " ", "e", "j", "e", "c", "t", "i", "o", "n">>},
      {<<"h", "r", " ", "d", "i", "a", "g", "r", "a", "m">>,
        <<"h", "e", "r", "t", "z", "s", "p", "r", "u", "n", "g", " ", "r", "u", "s", "s", "e", "l", "l", " ", "d", "i", "a", "g", "r", "a", "m">>,
        <<"h", "e", "r", "t", "z", "s", "p", "r", "u", "n", "g", "-", "r", "u", "s", "s", "e", "l", "l", " ", "d", "i", "a", "g", "r", "a", "m">>},
      {<<"t", "i", "d", "a", "l", " ", "l", "o", "c", "k", "i", "n", "g">>,
        <<"s", "y", "n", "c", "h", "r", "o", "n", "o", "u", "s", " ", "r", "o", "t", "a", "t", "i", "o", "n">>},
      {<<"s", "h", "o", "o", "t", "i", "n", "g", " ", "s", "t", "a", "r">>,
        <<"m", "e", "t", "e", "o", "r">>},
      {<<"f", "a", "l", "l", "i", "n", "g", " ", "s", "t", "a", "r">>,
        <<"m", "e", "t", "e", "o", "r">>},
      {<<"g", "i", "t", " ", "p", "u", "l", "l">>,
        <<"p", "u", "l", "l">>},
      {<<"g", "i", "t", " ", "p", "u", "s", "h">>,
        <<"p", "u", "s", "h">>},
      {<<"g", "i", "t", " ", "c", "o", "m", "m", "i", "t">>,
        <<"c", "o", "m", "m", "i", "t">>},
      {<<"l", "l", "m">>,
        <<"l", "a", "r", "g", "e", " ", "l", "a", "n", "g", "u", "a", "g", "e", " ", "m", "o", "d", "e", "l">>},
      {<<"a", "p", "i">>,
        <<"a", "p", "p", "l", "i", "c", "a", "t", "i", "o", "n", " ", "p", "r", "o", "g", "r", "a", "m", "m", "i", "n", "g", " ", "i", "n", "t", "e", "r", "f", "a", "c", "e">>},
      {<<"r", "a", "g">>,
        <<"r", "e", "t", "r", "i", "e", "v", "a", "l", " ", "a", "u", "g", "m", "e", "n", "t", "e", "d", " ", "g", "e", "n", "e", "r", "a", "t", "i", "o", "n">>}>>

_synonyms_match(a, b) ==
    \E g \in 1..Len(SYNONYMS) : a \in SYNONYMS[g] /\ b \in SYNONYMS[g]

\* set(s.split()): the maximal runs of non-whitespace characters
Tokens(s) ==
    LET Word(i, j) ==
            /\ \A k \in i..j : s[k] \notin Whitespace
            /\ (i = 1 \/ s[i - 1] \in Whitespace)
            /\ (j = Len(s) \/ s[j + 1] \in Whitespace)
    IN  {SubSeq(s, p[1], p[2]) :
            p \in {q \in (1..Len(s)) \X (1..Len(s)) :
                      q[1] <= q[2] /\ Word(q[1], q[2])}}

\* sub in s
Contains(sub, s) ==
    \E i \in 1..(Len(s) - Len(sub) + 1) : MatchAt(s, sub, i)

tokens_match(user_toks, correct_toks) ==
    \A ut \in user_toks :
        \E ct \in correct_toks : Contains(ut, ct) \/ Contains(ct, ut)

\* length of the common run of a from i and b from j, inside a[..ahi], b[..bhi]
RECURSIVE RunLen(_, _, _, _, _, _)
RunLen(a, i, ahi, b, j, bhi) ==
    IF i <= ahi /\ j <= bhi /\ a[i] = b[j]
    THEN 1 + RunLen(a, i + 1, ahi, b, j + 1, bhi)
    ELSE 0

\* SequenceMatcher.get_matching_blocks: the number of matched characters of
\* a[alo..ahi] and b[blo..bhi]; the longest block, earliest in a and then in
\* b, is taken and the pieces left and right of it are matched in turn
RECURSIVE Matched(_, _, _, _, _, _)
Matched(a, alo, ahi, b, blo, bhi) ==
    LET cells == (alo..ahi) \X (blo..bhi)
        size == IF cells = {} THEN 0
                ELSE SetMax({RunLen(a, c[1], ahi, b, c[2], bhi) : c \in cells})
    IN  IF size = 0 THEN 0
        ELSE LET i == SetMin({c[1] : c \in {d \in cells :
                          RunLen(a, d[1], ahi, b, d[2], bhi) = size}})
                 j == SetMin({c[2] : c \in {d \in cells :
                          d[1] = i /\ RunLen(a, d[1], ahi, b, d[2], bhi) = size}})
             IN  size + Matched(a, alo, i - 1, b, blo, j - 1)
                      + Matched(a, i + size, ahi, b, j + size, bhi)

\* bool(difflib.get_close_matches(word, [possibility], n=1, cutoff)) with the
\* cutoff in tenths: ratio() = 2.0 * matched / (len(a) + len(b)), 1.0 for two
\* empty strings
close_match(word, possibility, cutoff10) ==
    LET total == Len(word) + Len(possibility)
        m == Matched(possibility, 1, Len(possibility), word, 1, Len(word))
    IN  IF total = 0 THEN TRUE ELSE 20 * m >= cutoff10 * total

\* variant: the test for an empty answer is left out
check_answer_no_guard(user_answer, correct_answer) ==
    LET user == _normalize_answer(user_answer)
        correct == _normalize_answer(correct_answer)
    IN  IF user = correct THEN TRUE
        ELSE IF _synonyms_match(user, correct) THEN TRUE
        ELSE IF tokens_match(Tokens(user), Tokens(correct)) THEN TRUE
        ELSE IF \E ct \in Tokens(correct) : Len(ct) > 3 /\ close_match(user, ct, 8)
        THEN TRUE
        ELSE close_match(user, correct, 6)

check_answer(user_answer, correct_answer) ==
    LET user == _normalize_answer(user_answer)
        correct == _normalize_answer(correct_answer)
    IN  IF user = <<>> THEN FALSE
        ELSE IF user = correct THEN TRUE
        ELSE IF _synonyms_match(user, correct) THEN TRUE
        ELSE IF tokens_match(Tokens(user), Tokens(correct)) THEN TRUE
        ELSE IF \E ct \in Tokens(correct) : Len(ct) > 3 /\ close_match(user, ct, 8)
        THEN TRUE
        ELSE close_match(user, correct, 6)

\* answers as they are typed or stored on a board: a word, bare or dressed
\* as a question
AnswerWords == {<<>>, <<"s", "u", "n">>, <<"s", "o", "l">>, <<"s", "o", "n">>, <<"m", "a", "r", "s">>, <<"a", " ", ".">>}
AnswerFronts == {<<>>, <<"W", "h", "a", "t", " ", "i", "s", " ", "t", "h", "e", " ">>, <<" ">>}
AnswerEnds == {<<>>, <<"?">>}
AnswerTexts ==
    {f \o w \o e : f \in AnswerFronts, w \in AnswerWords, e \in AnswerEnds}

InitAnswer ==
    /\ CleanDisk
    /\ lectures = <<>>
    /\ filenames = <<>>
    /\ lecture_content = <<>>
    /\ lecture_chunks = <<>>
    /\ emb_list = <<>>
    /\ chunk_embeddings = NoArray
    /\ path = "none"
    /\ work = NoWork
    /\ at_start = NotStarted
    /\ sort_kind = "low_first"
    /\ session_state = NoSession
    /\ \E u \in AnswerTexts, c \in AnswerTexts :
          ret = [call |-> "pending", user_answer |-> u, correct_answer |-> c]
    /\ pc = "asked"

CheckOnly ==
    /\ pc = "asked"
    /\ ret' = [call |-> "check_answer",
               user_answer |-> ret.user_answer,
               correct_answer |-> ret.correct_answer,
               out |-> check_answer(ret.user_answer, ret.correct_answer)]
    /\ pc' = "checked"
    /\ UNCHANGED <<session_state, written_by, lectures, chunksFile, embFile,
                   filenames, lecture_content, lecture_chunks, emb_list,
                   chunk_embeddings, sort_kind, run, path, work, wrote, deleted,
                   at_start, cached_from>>

NextAnswer == CheckOnly

SpecAnswer == InitAnswer /\ [][NextAnswer]_vars

\* C28: check_answer returns False whenever the normalized user answer is
\* empty and True whenever it is non-empty and equal to the normalized
\* correct answer; so the correct answer itself is accepted exactly when its
\* normalized form is non-empty.
Thm_C28 ==
    pc = "checked" =>
        LET user == _normalize_answer(ret.user_answer)
            correct == _normalize_answer(ret.correct_answer)
        IN  /\ user = <<>> => ret.out = FALSE
            /\ (user # <<>> /\ user = correct) => ret.out = TRUE
            /\ ret.user_answer = ret.correct_answer =>
                  (ret.out = TRUE <=> correct # <<>>)

\* the stored answer was typed back and refused, its normalized form being
\* empty although the text is not blank
Wit_C28 ==
    /\ pc = "checked"
    /\ ret.user_answer = ret.correct_answer
    /\ Strip(ret.correct_answer) # <<>>
    /\ _normalize_answer(ret.correct_answer) = <<>>
    /\ ret.out = FALSE

----------------------------------------------------------------------------
(* Board generation (game_data.py) *)

None == [kind |-> "None"]

Ok(v) == [kind |-> "ok", value |-> v]

ClueOf(v, a) == [value |-> v, clue |-> <<"q">>, answer |-> a]

validate_game_data(data) ==
    LET categories == data.categories
        GoodClue(c) ==
            /\ c.value \in Int
            /\ Strip(c.clue) # <<>>
            /\ Strip(c.answer) # <<>>
        GoodCategory(cat) ==
            /\ Strip(cat.name) # <<>>
            /\ cat.clues # <<>>
            /\ \A q \in 1..Len(cat.clues) : GoodClue(cat.clues[q])
    IN  IF categories = <<>> THEN Raise("categories must be a non-empty list")
        ELSE IF \E c \in 1..Len(categories) : ~GoodCategory(categories[c])
        THEN Raise("invalid category")
        ELSE Ok([categories |-> categories])

expected_values == <<200, 400, 600, 800, 1000>>

\* generate_lectures_category: key says whether ASTRO1221_API_KEY is set,
\* reply is what the retrieval and the completion call give
generate_lectures_category(key, reply) ==
    IF ~key THEN Raise("ASTRO1221_API_KEY is not set")
    ELSE IF reply.kind = "search_error" THEN Raise("shapes not aligned")
    ELSE IF reply.kind = "completion_error" THEN Raise("APIError (Lectures)")
    ELSE IF reply.kind = "bad_json" THEN Raise("Failed to parse JSON from LLM for Lectures category")
    ELSE IF Len(reply.clues) # 5 THEN Raise("Expected 5 clues")
    ELSE Ok([name |-> <<"L">>,
             clues |-> [i \in 1..5 |->
                          [reply.clues[i] EXCEPT !.value = expected_values[i]]]])

\* generate_game_data; usage says whether last_token_usage was assigned
\* before the function returned or raised
generate_game_data(key, llm, lec) ==
    IF ~key
    THEN [kind |-> "error", exc |-> "ASTRO1221_API_KEY is not set", usage |-> FALSE]
    ELSE IF llm.kind = "completion_error"
    THEN [kind |-> "error", exc |-> "APIError", usage |-> FALSE]
    ELSE IF llm.kind = "bad_json"
    THEN [kind |-> "error", exc |-> "Failed to parse JSON from LLM", usage |-> FALSE]
    ELSE LET llm_data == validate_game_data(llm.data)
             lectures_category == generate_lectures_category(key, lec)
         IN  IF llm_data.kind = "error"
             THEN [kind |-> "error", exc |-> llm_data.exc, usage |-> TRUE]
             ELSE IF lectures_category.kind = "error"
             THEN [kind |-> "error", exc |-> lectures_category.exc, usage |-> TRUE]
             ELSE LET combined == validate_game_data(
                          [categories |-> Append(llm_data.value.categories,
                                                 lectures_category.value)])
                  IN  IF combined.kind = "error"
                      THEN [kind |-> "error", exc |-> combined.exc, usage |-> TRUE]
                      ELSE [kind |-> "ok", value |-> combined.value, usage |-> TRUE]

Sun == <<"s", "u", "n">>
Moon == <<"m", "o", "o", "n">>
Mars == <<"m", "a", "r", "s">>
Pluto == <<"p", "l", "u", "t", "o">>

\* a board reply with one category of one clue
BoardReply(name, v, a) ==
    [kind |-> "json",
     data |-> [categories |-> <<[name |-> name, clues |-> <<ClueOf(v, a)>>]>>]]

\* a Lectures reply of n clues (with values the code overwrites), the last
\* answer as given
LectureReply(n, last) ==
    [kind |-> "json",
     clues |-> [i \in 1..n |->
                  ClueOf(0, IF i = n THEN last ELSE IF i = 2 THEN Sun ELSE Moon)]]

GoodLectures == LectureReply(5, Moon)

\* what the board completion call may give: an exception, text that is not
\* JSON, JSON without categories, or a board
LLMReplies ==
    {[kind |-> "completion_error"],
     [kind |-> "bad_json"],
     [kind |-> "json", data |-> [categories |-> <<>>]],
     BoardReply(<<"S">>, 200, Mars),
     BoardReply(<<"G">>, 400, Sun)}

\* what retrieval and the Lectures completion call may give: a failing
\* search, an exception, text that is not JSON, four clues, five clues with
\* a blank answer, five good clues
LectureReplies ==
    {[kind |-> "search_error"],
     [kind |-> "completion_error"],
     [kind |-> "bad_json"],
     LectureReply(4, Moon),
     LectureReply(5, <<" ">>),
     GoodLectures}

\* the cases of one New Game press: no API key; every board reply with good
\* lectures; every Lectures reply after a good board
GenerationCases ==
    {[key |-> FALSE, llm |-> BoardReply(<<"S">>, 200, Mars), lec |-> GoodLectures]}
    \cup {[key |-> TRUE, llm |-> llm, lec |-> GoodLectures] : llm \in LLMReplies}
    \cup {[key |-> TRUE, llm |-> BoardReply(<<"S">>, 200, Mars), lec |-> lec] :
             lec \in LectureReplies}

----------------------------------------------------------------------------
(* The game session (main.py, ui.py, game_logic.py): one action is one run
   of the script, started by one thing the user does in the browser.
   Indices and positions are 0-based as in the code; scores[p + 1] is the
   score of player p. *)

MaxTeams == 2
MaxAnswered == 2
MaxHinted == 1

\* st.session_state after init_session_state on a new session
init_session_state ==
    [open |-> TRUE,
     game_board |-> None,
     answered_questions |-> {},
     score |-> 0,
     current_clue |-> None,
     last_token_usage |-> None,
     show_hints |-> FALSE,
     num_players |-> 1,
     scores |-> <<0>>,
     current_player |-> 0]

\* variant: the turn number is not wrapped
advance_player_no_wrap(s) ==
    IF s.num_players > 1
    THEN [s EXCEPT !.current_player = @ + 1]
    ELSE s

advance_player(s) ==
    IF s.num_players > 1
    THEN [s EXCEPT !.current_player = (@ + 1) % s.num_players]
    ELSE s

mark_answered(s, cat_idx, clue_idx) ==
    [s EXCEPT !.answered_questions = @ \cup {<<cat_idx, clue_idx>>}]

is_answered(s, cat_idx, clue_idx) ==
    <<cat_idx, clue_idx>> \in s.answered_questions

set_current_clue(s, cat_idx, clue_idx) ==
    LET categories == s.game_board.categories
        clue == categories[cat_idx + 1].clues[clue_idx + 1]
    IN  [s EXCEPT !.current_clue =
                      [category_index |-> cat_idx,
                       clue_index |-> clue_idx,
                       category_name |-> categories[cat_idx + 1].name,
                       value |-> clue.value,
                       clue |-> clue.clue,
                       answer |-> clue.answer,
                       options |-> <<>>],
                  !.show_hints = FALSE]

\* the (category, clue) positions for which render_board draws a button
BoardPositions(board) ==
    UNION {{<<ci, qi>> : qi \in 0..(Len(board.categories[ci + 1].clues) - 1)} :
              ci \in 0..(Len(board.categories) - 1)}

\* what the distractor completion call may give: an exception, text that is
\* not JSON, one distractor, three distractors
HintReplies ==
    {[kind |-> "completion_error"],
     [kind |-> "bad_json"],
     [kind |-> "json", distractors |-> <<Pluto>>],
     [kind |-> "json", distractors |-> <<Pluto, Pluto, Pluto>>]}

generate_distractors(key, reply) ==
    IF ~key THEN <<>>
    ELSE IF reply.kind # "json" THEN <<>>
    ELSE IF Len(reply.distractors) = 3 THEN reply.distractors
    ELSE <<>>

\* the outcomes of random.sample(list, k), the list given by its index set
\* and element function
Samples(idx, elem, k) ==
    {[i \in 1..k |-> elem[q[i]]] :
        q \in {r \in [1..k -> idx] : \A i, j \in 1..k : i # j => r[i] # r[j]}}

\* the outcomes of random.shuffle
Shuffles(list) ==
    {[i \in 1..Len(list) |-> list[p[i]]] : p \in Permutations(1..Len(list))}

\* variant: the clue's own position is not skipped
HintOptions_all(s, distractors) ==
    LET current == s.current_clue
        categories == s.game_board.categories
        others == {pos \in BoardPositions(s.game_board) :
                      Strip(categories[pos[1] + 1].clues[pos[2] + 1].answer) # <<>>}
        other_answers ==
            [pos \in others |-> categories[pos[1] + 1].clues[pos[2] + 1].answer]
        k == IF Cardinality(others) < 3 THEN Cardinality(others) ELSE 3
        picked == IF Len(distractors) < 3
                  THEN Samples(others, other_answers, k)
                  ELSE {distractors}
    IN  UNION {Shuffles(Append(d, current.answer)) : d \in picked}

\* the option lists the Hint branch may store (ui.py 181-195)
HintOptions(s, distractors) ==
    LET current == s.current_clue
        categories == s.game_board.categories
        others == {pos \in BoardPositions(s.game_board) :
                      /\ pos # <<current.category_index, current.clue_index>>
                      /\ Strip(categories[pos[1] + 1].clues[pos[2] + 1].answer) # <<>>}
        other_answers ==
            [pos \in others |-> categories[pos[1] + 1].clues[pos[2] + 1].answer]
        k == IF Cardinality(others) < 3 THEN Cardinality(others) ELSE 3
        picked == IF Len(distractors) < 3
                  THEN Samples(others, other_answers, k)
                  ELSE {distractors}
    IN  UNION {Shuffles(Append(d, current.answer)) : d \in picked}

\* what the player may type into the answer box
TypedAnswers == {<<>>, Mars}

InitGame ==
    /\ CleanDisk
    /\ IdleProcess
    /\ lectures = <<>>
    /\ sort_kind = "low_first"
    /\ session_state = init_session_state
    /\ pc = "ui"

\* the variables of the retrieval process
rag_vars == <<lectures, chunksFile, embFile, pc, filenames, lecture_content,
              lecture_chunks, emb_list, chunk_embeddings, sort_kind, run, path,
              work, wrote, deleted, at_start, cached_from, written_by>>

\* the user picks a number of teams: the script runs with no button pressed
\* (the widget has no key, its value is not in st.session_state)
SelectTeams ==
    /\ pc = "ui"
    /\ ret = NoRet
    /\ \E num_players \in 1..MaxTeams :
          ret' = [call |-> "selectbox", num_players |-> num_players]
    /\ UNCHANGED <<session_state, rag_vars>>

\* how far a New Game press got with the Lectures category: not_reached, or
\* the kind of reply retrieval and the completion call gave
LecturesOutcome(case) ==
    IF /\ case.key
       /\ case.llm.kind = "json"
       /\ validate_game_data(case.llm.data).kind = "ok"
    THEN case.lec.kind
    ELSE "not_reached"

\* variant: the team count is stored before the board is generated
NewGame_early ==
    /\ pc = "ui"
    /\ ret = NoRet
    /\ \E num_players \in 1..MaxTeams, case \in GenerationCases :
          LET out == generate_game_data(case.key, case.llm, case.lec)
              s0 == [session_state EXCEPT !.num_players = num_players]
              s1 == IF out.usage
                    THEN [s0 EXCEPT !.last_token_usage = "usage"]
                    ELSE s0
          IN  /\ session_state' =
                    IF out.kind = "ok"
                    THEN [s1 EXCEPT !.game_board = out.value,
                                    !.answered_questions = {},
                                    !.scores = [i \in 1..num_players |-> 0],
                                    !.current_player = 0,
                                    !.current_clue = None]
                    ELSE s1
              /\ ret' = [call |-> "New Game", out |-> out.kind,
                         lec |-> LecturesOutcome(case)]
    /\ UNCHANGED rag_vars

\* the New Game button (main.py 36-46)
NewGame ==
    /\ pc = "ui"
    /\ ret = NoRet
    /\ \E num_players \in 1..MaxTeams, case \in GenerationCases :
          LET out == generate_game_data(case.key, case.llm, case.lec)
              s1 == IF out.usage
                    THEN [session_state EXCEPT !.last_token_usage = "usage"]
                    ELSE session_state
          IN  /\ session_state' =
                    IF out.kind = "ok"
                    THEN [s1 EXCEPT !.game_board = out.value,
                                    !.answered_questions = {},
                                    !.num_players = num_players,
                                    !.scores = [i \in 1..num_players |-> 0],
                                    !.current_player = 0,
                                    !.current_clue = None]
                    ELSE s1
              /\ ret' = [call |-> "New Game", out |-> out.kind,
                         lec |-> LecturesOutcome(case)]
    /\ UNCHANGED rag_vars

\* variant: the buttons of answered clues are not disabled
PickClue_any ==
    /\ pc = "ui"
    /\ ret = NoRet
    /\ session_state.game_board # None
    /\ session_state.current_clue = None
    /\ Cardinality(session_state.answered_questions) < MaxAnswered
    /\ \E pos \in BoardPositions(session_state.game_board) :
          /\ session_state' = set_current_clue(session_state, pos[1], pos[2])
          /\ ret' = [call |-> "set_current_clue", pos |-> pos]
    /\ UNCHANGED rag_vars

\* a board button that is not disabled (ui.py 85-91)
PickClue ==
    /\ pc = "ui"
    /\ ret = NoRet
    /\ session_state.game_board # None
    /\ session_state.current_clue = None
    /\ Cardinality(session_state.answered_questions) < MaxAnswered
    /\ \E pos \in BoardPositions(session_state.game_board) :
          /\ ~is_answered(session_state, pos[1], pos[2])
          /\ session_state' = set_current_clue(session_state, pos[1], pos[2])
          /\ ret' = [call |-> "set_current_clue", pos |-> pos]
    /\ UNCHANGED rag_vars

\* what the answer widget may hold when a button of the clue view is pressed
UserAnswers(s) ==
    IF s.show_hints
    THEN {s.current_clue.options[i] : i \in 1..Len(s.current_clue.options)}
    ELSE TypedAnswers

\* variant: a wrong answer costs the next player
Submit_next_pays ==
    /\ pc = "ui"
    /\ ret = NoRet
    /\ session_state.current_clue # None
    /\ \E user_answer \in UserAnswers(session_state) :
          LET current == session_state.current_clue
              current_player == session_state.current_player
              payer == (current_player + 1) % session_state.num_players
              s1 == IF check_answer(user_answer, current.answer)
                    THEN [session_state EXCEPT
                             !.scores[current_player + 1] = @ + current.value]
                    ELSE [session_state EXCEPT
                             !.scores[payer + 1] = @ - current.value]
              s2 == mark_answered(s1, current.category_index, current.clue_index)
              s3 == [s2 EXCEPT !.current_clue = None, !.show_hints = FALSE]
          IN  /\ session_state' = advance_player(s3)
              /\ ret' = [call |-> "Submit", user_answer |-> user_answer]
    /\ UNCHANGED rag_vars

\* the Submit answer button (ui.py 153-175)
Submit ==
    /\ pc = "ui"
    /\ ret = NoRet
    /\ session_state.current_clue # None
    /\ \E user_answer \in UserAnswers(session_state) :
          LET current == session_state.current_clue
              current_player == session_state.current_player
              s1 == IF check_answer(user_answer, current.answer)
                    THEN [session_state EXCEPT
                             !.scores[current_player + 1] = @ + current.value]
                    ELSE [session_state EXCEPT
                             !.scores[current_player + 1] = @ - current.value]
              s2 == mark_answered(s1, current.category_index, current.clue_index)
              s3 == [s2 EXCEPT !.current_clue = None, !.show_hints = FALSE]
          IN  /\ session_state' = advance_player(s3)
              /\ ret' = [call |-> "Submit", user_answer |-> user_answer]
    /\ UNCHANGED rag_vars

\* the Hint button, disabled once hints are shown (ui.py 147, 177-197)
Hint ==
    /\ pc = "ui"
    /\ ret = NoRet
    /\ session_state.current_clue # None
    /\ ~session_state.show_hints
    /\ Cardinality(session_state.answered_questions) < MaxHinted
    /\ \E key \in BOOLEAN, reply \in HintReplies :
          LET distractors == generate_distractors(key, reply)
          IN  /\ \E options \in HintOptions(session_state, distractors) :
                    session_state' =
                        [session_state EXCEPT !.current_clue.options = options,
                                              !.show_hints = TRUE]
              /\ ret' = [call |-> "Hint", llm |-> Len(distractors) = 3]
    /\ UNCHANGED rag_vars

\* variant: giving up does not pass the turn
GiveUp_keeps_turn ==
    /\ pc = "ui"
    /\ ret = NoRet
    /\ session_state.current_clue # None
    /\ LET current == session_state.current_clue
           s2 == mark_answered(session_state, current.category_index,
                               current.clue_index)
       IN  session_state' = [s2 EXCEPT !.current_clue = None, !.show_hints = FALSE]
    /\ ret' = [call |-> "Give Up"]
    /\ UNCHANGED rag_vars

\* the Give Up button (ui.py 199-207)
GiveUp ==
    /\ pc = "ui"
    /\ ret = NoRet
    /\ session_state.current_clue # None
    /\ LET current == session_state.current_clue
           s2 == mark_answered(session_state, current.category_index,
                               current.clue_index)
           s3 == [s2 EXCEPT !.current_clue = None, !.show_hints = FALSE]
       IN  session_state' = advance_player(s3)
    /\ ret' = [call |-> "Give Up"]
    /\ UNCHANGED rag_vars

\* the page is drawn and waits for the next thing the user does
Rendered ==
    /\ pc = "ui"
    /\ ret # NoRet
    /\ ret' = NoRet
    /\ UNCHANGED <<session_state, rag_vars>>

NextGame ==
    \/ SelectTeams
    \/ NewGame
    \/ PickClue
    \/ Submit
    \/ Hint
    \/ GiveUp
    \/ Rendered

SpecGame == InitGame /\ [][NextGame]_vars

----------------------------------------------------------------------------
(* Properties of the game session.  In a step of the session ret' names the
   handler that ran and session_state, session_state' are the state before
   and after it. *)

\* C21: when the Lectures completion call fails or returns text that is not
\* JSON, after a good board reply, the New Game press still ends with a new
\* board in place.
Cex_C21 ==
    (ret.call = "New Game" /\ ret.lec \in {"completion_error", "bad_json"}) =>
        /\ ret.out = "ok"
        /\ session_state.game_board # None
        /\ session_state.answered_questions = {}

\* C22: Submit and Give Up pass the turn to (current_player + 1) mod
\* num_players when there are several players and leave it at 0 when there
\* is one; Hint and opening a clue leave current_player as it is.
Thm_C22 ==
    [][ /\ ret'.call \in {"Submit", "Give Up"} =>
              session_state'.current_player =
                  IF session_state.num_players > 1
                  THEN (session_state.current_player + 1) % session_state.num_players
                  ELSE 0
        /\ ret'.call \in {"Hint", "set_current_clue"} =>
              session_state'.current_player = session_state.current_player
      ]_vars

\* in a game of two teams the second clue was given up and the turn is back
\* at team 0
Wit_C22 ==
    /\ ret.call = "Give Up"
    /\ session_state.num_players = 2
    /\ Cardinality(session_state.answered_questions) = 2
    /\ session_state.current_player = 0

\* C23: in every state of the session there is one score per player and
\* current_player is the index of a player.
Thm_C23 ==
    session_state.open =>
        /\ Len(session_state.scores) = session_state.num_players
        /\ session_state.current_player >= 0
        /\ session_state.current_player < session_state.num_players

\* a New Game press failed in the middle of a game of two teams, the turn
\* being with the last team
Wit_C23 ==
    /\ ret.call = "New Game"
    /\ ret.out = "error"
    /\ session_state.num_players = 2
    /\ session_state.current_player = 1
    /\ session_state.current_clue # None

\* the position of the open clue
CluePos(s) == <<s.current_clue.category_index, s.current_clue.clue_index>>

\* C24: an open clue is never an answered one; a clue is opened only at a
\* position that is not answered; answered_questions grows only by the
\* position of the open clue, shrinks only when a successful New Game
\* empties it, and scores change only in a step that adds that position or
\* starts a new game.
Thm_C24 ==
    /\ [](session_state.open /\ session_state.current_clue # None =>
             CluePos(session_state) \notin session_state.answered_questions)
    /\ [][ /\ ret'.call = "set_current_clue" =>
                 /\ ret'.pos \notin session_state.answered_questions
                 /\ CluePos(session_state') = ret'.pos
           /\ session_state'.answered_questions # session_state.answered_questions =>
                 \/ /\ ret'.call = "New Game"
                    /\ ret'.out = "ok"
                    /\ session_state'.answered_questions = {}
                 \/ /\ session_state.current_clue # None
                    /\ session_state'.current_clue = None
                    /\ CluePos(session_state) \notin session_state.answered_questions
                    /\ session_state'.answered_questions =
                           session_state.answered_questions \cup {CluePos(session_state)}
           /\ session_state'.scores # session_state.scores =>
                 \/ ret'.call = "New Game" /\ ret'.out = "ok"
                 \/ /\ session_state.current_clue # None
                    /\ session_state'.answered_questions =
                           session_state.answered_questions \cup {CluePos(session_state)}
         ]_vars

\* a clue is opened while another one of the same game is answered
Wit_C24 ==
    /\ ret.call = "set_current_clue"
    /\ session_state.answered_questions # {}
    /\ session_state.scores # [i \in 1..session_state.num_players |-> 0]

\* C25: a Submit adds the clue's value to the score of the player whose turn
\* it was if check_answer accepts the answer, subtracts it if not, and leaves
\* the other scores alone; Give Up and Hint leave all scores alone.
Thm_C25 ==
    [][ /\ ret'.call = "Submit" =>
              LET current == session_state.current_clue
                  p == session_state.current_player
                  gain == IF check_answer(ret'.user_answer, current.answer)
                          THEN current.value
                          ELSE 0 - current.value
              IN  session_state'.scores =
                      [session_state.scores EXCEPT ![p + 1] = @ + gain]
        /\ ret'.call \in {"Give Up", "Hint"} =>
              session_state'.scores = session_state.scores
      ]_vars

\* in a game of two teams team 0 has lost points and team 1 has won points
Wit_C25 ==
    /\ ret.call = "Submit"
    /\ session_state.num_players = 2
    /\ session_state.scores[1] < 0
    /\ session_state.scores[2] > 0

\* C26: a New Game press whose board generation raises leaves game_board,
\* answered_questions, num_players, scores, current_player and current_clue
\* as they were.
Thm_C26 ==
    [][ (ret'.call = "New Game" /\ ret'.out = "error") =>
            /\ session_state'.game_board = session_state.game_board
            /\ session_state'.answered_questions = session_state.answered_questions
            /\ session_state'.num_players = session_state.num_players
            /\ session_state'.scores = session_state.scores
            /\ session_state'.current_player = session_state.current_player
            /\ session_state'.current_clue = session_state.current_clue
      ]_vars

\* the Lectures category failed after a good board reply, in the middle of a
\* game with a clue open
Wit_C26 ==
    /\ ret.call = "New Game"
    /\ ret.out = "error"
    /\ ret.lec \in {"search_error", "completion_error", "bad_json", "json"}
    /\ session_state.answered_questions # {}
    /\ session_state.current_clue # None

\* number of entries of list equal to t
Occurrences(list, t) == Cardinality({i \in 1..Len(list) : list[i] = t})

\* C27: the option list stored by Hint contains the clue's answer; if the
\* distractors did not come from the completion call, the other options are
\* min(3, number of other clues) answers taken from other positions of the
\* board, each position used at most once.
Thm_C27 ==
    [][ ret'.call = "Hint" =>
            LET current == session_state.current_clue
                options == session_state'.current_clue.options
                categories == session_state.game_board.categories
                others == BoardPositions(session_state.game_board)
                              \ {CluePos(session_state)}
                Answers(t) ==
                    Cardinality({pos \in others :
                        categories[pos[1] + 1].clues[pos[2] + 1].answer = t})
                texts == {options[i] : i \in 1..Len(options)}
            IN  /\ session_state'.show_hints
                /\ current.answer \in texts
                /\ ~ret'.llm =>
                      /\ Len(options) = 1 + Min(3, Cardinality(others))
                      /\ \A t \in texts :
                            Occurrences(options, t)
                              - (IF t = current.answer THEN 1 ELSE 0)
                                <= Answers(t)
      ]_vars

\* hints drawn from the board for a clue whose answer no other clue has
Wit_C27 ==
    /\ ret.call = "Hint"
    /\ ~ret.llm
    /\ session_state.current_clue.answer = Mars
    /\ Occurrences(session_state.current_clue.options, Mars) = 1
    /\ Len(session_state.current_clue.options) = 4

====
